---------------------------- MODULE Spec2Model ----------------------------
(***************************************************************************)
(* A model of the portfolio Q&A backend (src/main.py): the in-memory       *)
(* session store `conversations`, the day's log file LOG_FILE, and the     *)
(* handlers of the HTTP surface.  The handlers are plain `def` functions,  *)
(* so the framework runs each request on a pool thread: the steps of       *)
(* concurrent requests interleave between statements.                      *)
(*                                                                         *)
(* Python values are modelled as follows: a str is a TLA+ string, None is  *)
(* the reserved value None, a list is a sequence, a dict with fixed keys   *)
(* is a record and the dict `conversations` is a function whose domain is  *)
(* its key set.  Of a timestamp only the calendar date is kept, and every   *)
(* elapsed time is the one value Elapsed.                                  *)
(***************************************************************************)
EXTENDS Naturals, Sequences, FiniteSets, TLC

\* ------------------------------------------------------------------ bounds

\* The number of /ask requests of a run; as many as there are pool threads may
\* be in flight at once.
MaxAsk == 2

\* The number of POST /session/new requests of a run.
MaxNew == 1

\* The largest number of exchanges a session holds when a run starts from a
\* conversation under way.
MaxPrior == 4

\* ------------------------------------------------------------ Python values

None == "None"

\* Python truthiness of an Optional[str]: None and the empty string are falsy.
Truthy(v) == v # None /\ v # ""

Elapsed == "elapsed"

MODEL_NAME == "models/gemini-flash-lite-latest"

\* ------------------------------------------------------------- the texts

\* The questions clients ask, and the characters of each (TLA+ strings are
\* atomic: the classifier reads a question through Chars).
Questions == {"Why?", "Hi"}

Chars(question) ==
    CASE question = "Why?" -> <<"W", "h", "y", "?">>
      [] question = "Hi" -> <<"H", "i">>
      [] question = "WHEN was it built?" ->
            <<"W", "H", "E", "N", " ", "w", "a", "s", " ", "i", "t", " ",
              "b", "u", "i", "l", "t", "?">>
      [] question = "Explain why" ->
            <<"E", "x", "p", "l", "a", "i", "n", " ", "w", "h", "y">>
      [] question = "Which story?" ->
            <<"W", "h", "i", "c", "h", " ", "s", "t", "o", "r", "y", "?">>
      [] question = "Tell me more" ->
            <<"T", "e", "l", "l", " ", "m", "e", " ", "m", "o", "r", "e">>
      [] question = "List the design" ->
            <<"L", "i", "s", "t", " ", "t", "h", "e", " ",
              "d", "e", "s", "i", "g", "n">>

\* The questions the classifier is tried on: one or several categories
\* matched, in either case of the letters, or none.
ClassifierQuestions ==
    {"Why?", "Hi", "WHEN was it built?", "Explain why", "Which story?",
     "Tell me more", "List the design"}

UpperCase ==
    <<"A", "B", "C", "D", "E", "F", "G", "H", "I", "J", "K", "L", "M",
      "N", "O", "P", "Q", "R", "S", "T", "U", "V", "W", "X", "Y", "Z">>

LowerCase ==
    <<"a", "b", "c", "d", "e", "f", "g", "h", "i", "j", "k", "l", "m",
      "n", "o", "p", "q", "r", "s", "t", "u", "v", "w", "x", "y", "z">>

\* str.lower(), character by character.
Lower(cs) ==
    [i \in 1..Len(cs) |->
        IF \E k \in 1..Len(UpperCase) : UpperCase[k] = cs[i]
        THEN LowerCase[CHOOSE k \in 1..Len(UpperCase) : UpperCase[k] = cs[i]]
        ELSE cs[i]]

\* `keyword in text` for two character sequences: substring search.
Contains(text, keyword) ==
    \E start \in 0..(Len(text) - Len(keyword)) :
        \A i \in 1..Len(keyword) : text[start + i] = keyword[i]

deep_dive_keywords ==
    << <<"h", "o", "w", " ", "d", "i", "d">>,
       <<"e", "x", "p", "l", "a", "i", "n">>,
       <<"t", "e", "c", "h", "n", "i", "c", "a", "l">>,
       <<"a", "r", "c", "h", "i", "t", "e", "c", "t", "u", "r", "e">>,
       <<"i", "m", "p", "l", "e", "m", "e", "n", "t">>,
       <<"d", "e", "s", "i", "g", "n">>,
       <<"b", "u", "i", "l", "d">>,
       <<"d", "e", "v", "e", "l", "o", "p">>,
       <<"c", "h", "a", "l", "l", "e", "n", "g", "e">>,
       <<"a", "p", "p", "r", "o", "a", "c", "h">> >>

quick_keywords ==
    << <<"w", "h", "a", "t", " ", "i", "s">>,
       <<"w", "h", "i", "c", "h">>,
       <<"w", "h", "e", "n">>,
       <<"w", "h", "e", "r", "e">>,
       <<"l", "i", "s", "t">>,
       <<"n", "a", "m", "e">> >>

story_keywords ==
    << <<"w", "h", "y">>,
       <<"j", "o", "u", "r", "n", "e", "y">>,
       <<"b", "a", "c", "k", "g", "r", "o", "u", "n", "d">>,
       <<"s", "t", "o", "r", "y">>,
       <<"m", "o", "t", "i", "v", "a", "t", "i", "o", "n">>,
       <<"i", "n", "s", "p", "i", "r", "e", "d">> >>

\* any(keyword in question_lower for keyword in keywords)
AnyKeyword(question_lower, keywords) ==
    \E k \in 1..Len(keywords) : Contains(question_lower, keywords[k])

\* detect_response_mode without question.lower() (a mutant).
detect_response_mode_cased(question) ==
    LET question_lower == Chars(question)
    IN  IF AnyKeyword(question_lower, deep_dive_keywords) THEN "deep-dive"
        ELSE IF AnyKeyword(question_lower, quick_keywords) THEN "quick"
        ELSE IF AnyKeyword(question_lower, story_keywords) THEN "story"
        ELSE "default"

detect_response_mode(question) ==
    LET question_lower == Lower(Chars(question))
    IN  IF AnyKeyword(question_lower, deep_dive_keywords) THEN "deep-dive"
        ELSE IF AnyKeyword(question_lower, quick_keywords) THEN "quick"
        ELSE IF AnyKeyword(question_lower, story_keywords) THEN "story"
        ELSE "default"

\* The keys of the dict `modes` of get_mode_instructions.
KnownModes == {"deep-dive", "quick", "story", "default"}

\* modes.get(mode, modes["default"]): the instruction block is named by its key.
get_mode_instructions(mode) ==
    IF mode \in KnownModes THEN mode ELSE "default"


\* ------------------------------------------------------------- the state

VARIABLES
    conversations,  \* the dict `conversations`: session id -> list of messages
    log_file,       \* LOG_FILE on disk: [state, logs]
    uuids,          \* how many identifiers uuid.uuid4() has generated
    ask,            \* request number -> the locals of that ask_portfolio call
    news,           \* how many POST /session/new requests were served
    reply,          \* what the step just taken sent: the response to its
                    \* client, or the request to the completion service
    today           \* the calendar date datetime.now() reads

vars == <<conversations, log_file, uuids, ask, news, reply, today>>

Reqs == 1..MaxAsk

\* str(uuid.uuid4()): the n-th identifier generated; no two are equal.
Uuid(n) == <<"u1", "u2", "u3", "u4", "u5", "u6">>[n]

\* Identifiers a client may make up without the server having issued them.
ClientIds == {"abc"}

\* The modes a client may send; None is an explicit JSON null and an omitted
\* mode is the field's default, "auto" (class Question).
RequestedModes == {"auto", None, "quick", "turbo"}

\* The text the completion service answers request r with.
AnswerText(r) == <<"a1", "a2", "a3", "a4">>[r]

FALLBACK == "I couldn't generate a response. Please try again."

\* What client.models.generate_content does for request r: it raises (with a
\* message that may be empty), or returns a response object with a text
\* attribute (a text or None), with candidates only (none, or one holding a
\* text), or with neither.
Raise(msg) == [kind |-> "raise", text |-> msg]
TextResponse(t) == [kind |-> "text", text |-> t]
CandidatesResponse(t) == [kind |-> "candidates", text |-> t]
BareResponse == [kind |-> "bare", text |-> None]

\* The completion service has not been called yet.
NoResponse == [kind |-> "none", text |-> None]

Responses(r) ==
    {TextResponse(AnswerText(r)), Raise("quota exceeded"), Raise("")}

AllResponses(r) ==
    Responses(r) \cup
    {TextResponse(None), CandidatesResponse(AnswerText(r)),
     CandidatesResponse(None), BareResponse}

\* What a request found when it arrived, before it is known: nothing.
NothingFound == [history |-> <<>>, logs |-> <<>>, store |-> <<>>]

\* The locals of an ask_portfolio call that has not started.  Three fields are
\* history variables that no handler reads: `found` is what the request found
\* when it arrived (the stored history of the session it names and the readable
\* content of the log, the whole store), recorded for requests served one
\* after another and kept until the request ends; `in_flight` is the set of
\* requests that were in flight when it arrived; `raised` is the message of the
\* exception raised by the completion call or the extraction, if any;
\* `response` is what the completion service did.
NoLocals ==
    [pc |-> "idle", q |-> [question |-> None, session_id |-> None, mode |-> None],
     session_id |-> None, mode |-> None, answer |-> None, error_msg |-> None,
     in_except |-> FALSE, logs |-> <<>>, result |-> [pending |-> TRUE],
     found |-> NothingFound, in_flight |-> {}, raised |-> None,
     response |-> NoResponse]

NoReply == [handler |-> "none"]

\* The calendar date on which the module is loaded, and the date after it.
StartDate == "D"
NextDate == "D+1"

\* LOG_FILE is named once, when the module is loaded, after the date of that
\* moment: logs/interactions_<date>.json.
LOG_FILE == [dir |-> "logs", date |-> StartDate]

\* The log file when the process starts: no file yet, a file that is not JSON
\* (json.load raises JSONDecodeError), or a file whose read fails otherwise
\* (OSError, UnicodeDecodeError, JSON that is not a list).
Missing == [state |-> "missing", logs |-> <<>>]
Corrupt == [state |-> "corrupt", logs |-> <<>>]
Unreadable == [state |-> "unreadable", logs |-> <<>>]
JsonFile(logs) == [state |-> "json", logs |-> logs]

\* The state after the module is loaded, given the log file found on disk.
InitWith(files) ==
    /\ conversations = <<>>
    /\ log_file \in files
    /\ uuids = 0
    /\ ask = [r \in Reqs |-> NoLocals]
    /\ news = 0
    /\ reply = NoReply
    /\ today = StartDate

\* The first start of a day: there is no log file yet.
Init == InitWith({Missing})

\* A start that may find a log file it cannot read.
InitAnyLog == InitWith({Missing, Corrupt, Unreadable})

Known(session_id) == session_id \in DOMAIN conversations

\* conversations[session_id] = value
SetItem(session_id, value) ==
    [s \in DOMAIN conversations \cup {session_id} |->
        IF s = session_id THEN value ELSE conversations[s]]

\* A store whose sessions share one list object: an append shows in every
\* session (the mutant of AppendMessage).
AppendMessageShared(session_id, message) ==
    [s \in DOMAIN conversations |-> Append(conversations[s], message)]

\* conversations[session_id].append(message)
AppendMessage(session_id, message) ==
    [conversations EXCEPT ![session_id] = Append(@, message)]

\* What the framework answers when a handler ends by an unhandled exception.
InternalServerError == [fault |-> "Internal Server Error"]

\* ------------------------------------------------- POST /ask: ask_portfolio

Started(r) == ask[r].pc # "idle"
Returned(r) == ask[r].pc = "done"
InFlight(r) == Started(r) /\ ~Returned(r)

\* The identifiers generated for an /ask that sent none and that no response
\* has carried yet: only the success shape returns the session id.
Undisclosed ==
    {ask[r].session_id :
        r \in {o \in Reqs : /\ Started(o)
                            /\ ~Truthy(ask[o].q.session_id)
                            /\ "answer" \notin DOMAIN ask[o].result}}

\* The request bodies a client may send now: a question, a session id (none,
\* one the client made up, or one a response has given it) and a mode.
Bodies ==
    [question : Questions,
     session_id : {None} \cup ClientIds \cup (DOMAIN conversations \ Undisclosed),
     mode : RequestedModes]

\* What log_interaction reads as the prior log: the file's list, or [] when
\* there is no file or json.load raises JSONDecodeError.
LoadLogs(file) == IF file.state = "json" THEN file.logs ELSE <<>>

\* What a request naming session_id finds on arrival (history variable).
Found(session_id) ==
    [history |-> IF Known(session_id) THEN conversations[session_id] ELSE <<>>,
     logs |-> LoadLogs(log_file),
     store |-> conversations]

\* The request arrives and the session is resolved: without a session id a
\* fresh one is generated and stored with an empty history; with an unknown one
\* the handler has only seen that it is unknown (the store is set in the next
\* step); a known one is used as it is.
AskBegin(r, q, found) ==
    /\ ask[r].pc = "idle"
    /\ \A o \in Reqs : o < r => Started(o)
    /\ IF ~Truthy(q.session_id)
       THEN /\ uuids' = uuids + 1
            /\ conversations' = SetItem(Uuid(uuids + 1), <<>>)
            /\ ask' = [ask EXCEPT ![r].q = q, ![r].pc = "generate",
                                  ![r].session_id = Uuid(uuids + 1),
                                  ![r].found = found,
                                  ![r].in_flight = {o \in Reqs : InFlight(o)}]
       ELSE /\ ask' = [ask EXCEPT ![r].q = q, ![r].session_id = q.session_id,
                                  ![r].pc = IF Known(q.session_id)
                                            THEN "generate" ELSE "create",
                                  ![r].found = found,
                                  ![r].in_flight = {o \in Reqs : InFlight(o)}]
            /\ UNCHANGED <<conversations, uuids>>
    /\ reply' = NoReply
    /\ UNCHANGED <<log_file, news, today>>

\* elif session_id not in conversations: conversations[session_id] = []
AskCreate(r) ==
    /\ ask[r].pc = "create"
    /\ conversations' = SetItem(ask[r].session_id, <<>>)
    /\ ask' = [ask EXCEPT ![r].pc = "generate"]
    /\ reply' = NoReply
    /\ UNCHANGED <<log_file, uuids, news, today>>

\* mode = q.mode; if mode == "auto": mode = detect_response_mode(q.question)
ResolveMode(q) ==
    IF q.mode = "auto" THEN detect_response_mode(q.question) ELSE q.mode

\* The answer extracted from a response object; Raise(msg) when the extraction
\* raises (candidates[0] of an empty list).
ExtractAnswer(response) ==
    CASE response.kind = "text" -> TextResponse(response.text)
      [] response.kind = "candidates" ->
            IF response.text = None
            THEN Raise("list index out of range")
            ELSE TextResponse(response.text)
      [] response.kind = "bare" -> TextResponse(FALLBACK)
      [] response.kind = "raise" -> response

\* history[-6:]
HistoryWindow == 6

\* The slice history[:HistoryWindow] (a mutant: the oldest messages).
FirstMessages(history) ==
    SubSeq(history, 1,
           IF Len(history) > HistoryWindow THEN HistoryWindow ELSE Len(history))

\* The slice history[-HistoryWindow:] of a list.
LastMessages(history) ==
    SubSeq(history,
           IF Len(history) > HistoryWindow THEN Len(history) - HistoryWindow + 1 ELSE 1,
           Len(history))

\* The prompt, by its parts in order: the instruction block of the mode, the
\* fixed context, the lines of the "Previous conversation" section (none when
\* the session is unknown or its history empty), the current question.
build_prompt_with_history(question, mode, session_id) ==
    LET history == IF Truthy(session_id) /\ Known(session_id)
                   THEN conversations[session_id] ELSE <<>>
        shown == LastMessages(history)
    IN  [mode_instruction |-> get_mode_instructions(mode),
         context |-> "PORTFOLIO_CONTEXT",
         previous |-> [i \in 1..Len(shown) |->
                        [role |-> IF shown[i].role = "user" THEN "User" ELSE "Assistant",
                         content |-> shown[i].content]],
         question |-> question]

\* The mode is resolved, the prompt is built from the stored history, the
\* completion service is called with it and the answer extracted; an exception
\* enters the except clause, which records the message and logs.  `response`
\* is kept as a history variable.
AskGenerate(r, response) ==
    /\ ask[r].pc = "generate"
    /\ LET got == ExtractAnswer(response)
           mode == ResolveMode(ask[r].q)
           prompt == build_prompt_with_history(ask[r].q.question, mode,
                                               ask[r].session_id)
       IN  /\ ask' = IF got.kind = "raise"
                     THEN [ask EXCEPT ![r].mode = mode,
                                      ![r].response = response,
                                      ![r].in_except = TRUE,
                                      ![r].error_msg = got.text,
                                      ![r].raised = got.text,
                                      ![r].pc = "log_load"]
                     ELSE [ask EXCEPT ![r].mode = mode,
                                      ![r].response = response,
                                      ![r].answer = got.text,
                                      ![r].pc = "append_user"]
           /\ reply' = [handler |-> "generate_content",
                        model |-> MODEL_NAME, contents |-> prompt]
    /\ UNCHANGED <<conversations, log_file, uuids, news, today>>

UserMessage(r) == [role |-> "user", content |-> ask[r].q.question]
AssistantMessage(r) == [role |-> "assistant", content |-> ask[r].answer]

\* conversations[session_id].append({"role": "user", "content": q.question})
AskAppendUser(r) ==
    /\ ask[r].pc = "append_user"
    /\ conversations' = AppendMessage(ask[r].session_id, UserMessage(r))
    /\ ask' = [ask EXCEPT ![r].pc = "append_assistant"]
    /\ reply' = NoReply
    /\ UNCHANGED <<log_file, uuids, news, today>>

\* conversations[session_id].append({"role": "assistant", "content": answer})
AskAppendAssistant(r) ==
    /\ ask[r].pc = "append_assistant"
    /\ conversations' = AppendMessage(ask[r].session_id, AssistantMessage(r))
    /\ ask' = [ask EXCEPT ![r].pc = "log_load"]
    /\ reply' = NoReply
    /\ UNCHANGED <<log_file, uuids, news, today>>

\* ------------------------------------------------------- log_interaction

\* The entry built with the session id of the request body, None when the
\* client sent none (a mutant: q.session_id passed in place of session_id).
LogEntrySupplied(r) ==
    LET error == IF ask[r].in_except THEN ask[r].error_msg ELSE None
        answer == IF ask[r].in_except THEN None ELSE ask[r].answer
    IN  [timestamp |-> today,
         session_id |-> ask[r].q.session_id,
         mode |-> ask[r].mode,
         question |-> ask[r].q.question,
         answer |-> IF ~Truthy(error) THEN answer ELSE None,
         error |-> error,
         response_time_seconds |-> Elapsed,
         model |-> MODEL_NAME]

\* The entry log_interaction builds: the success path passes the answer and no
\* error, the except clause passes answer None and error=error_msg.
LogEntry(r) ==
    LET error == IF ask[r].in_except THEN ask[r].error_msg ELSE None
        answer == IF ask[r].in_except THEN None ELSE ask[r].answer
    IN  [timestamp |-> today,
         session_id |-> ask[r].session_id,
         mode |-> ask[r].mode,
         question |-> ask[r].q.question,
         answer |-> IF ~Truthy(error) THEN answer ELSE None,
         error |-> error,
         response_time_seconds |-> Elapsed,
         model |-> MODEL_NAME]

\* logs = [] / json.load(f), then logs.append(log_entry).  A read that fails
\* otherwise raises out of log_interaction: on the success path into the
\* except clause (which calls log_interaction again), in the except clause
\* out of the handler.
LogLoad(r) ==
    /\ ask[r].pc = "log_load"
    /\ ask' = IF log_file.state = "unreadable"
              THEN IF ask[r].in_except
                   THEN [ask EXCEPT ![r].pc = "done",
                                    ![r].result = InternalServerError,
                                    ![r].found = NothingFound]
                   ELSE [ask EXCEPT ![r].in_except = TRUE,
                                    ![r].error_msg = "cannot read log"]
              ELSE [ask EXCEPT ![r].logs = Append(LoadLogs(log_file), LogEntry(r)),
                               ![r].pc = "log_write"]
    /\ reply' = NoReply
    /\ UNCHANGED <<conversations, log_file, uuids, news, today>>

\* with open(LOG_FILE, 'w') as f: json.dump(logs, f, indent=2).  The file is
\* replaced by the list the request holds, whatever was written to it since
\* the request loaded it; the write is taken as one step.
LogWrite(r) ==
    /\ ask[r].pc = "log_write"
    /\ log_file' = JsonFile(ask[r].logs)
    /\ ask' = [ask EXCEPT ![r].pc = "return", ![r].logs = <<>>]
    /\ reply' = NoReply
    /\ UNCHANGED <<conversations, uuids, news, today>>

\* The success shape with the number of messages as conversation_length (a
\* mutant: the halving forgotten).
SuccessResultMessages(r) ==
    [answer |-> ask[r].answer,
     response_time |-> Elapsed,
     session_id |-> ask[r].session_id,
     mode_used |-> ask[r].mode,
     conversation_length |-> Len(conversations[ask[r].session_id])]

\* The success shape and the error shape of /ask.
SuccessResult(r) ==
    [answer |-> ask[r].answer,
     response_time |-> Elapsed,
     session_id |-> ask[r].session_id,
     mode_used |-> ask[r].mode,
     conversation_length |-> Len(conversations[ask[r].session_id]) \div 2]

ErrorResult(r) == [error |-> ask[r].error_msg, response_time |-> Elapsed]

AskReturn(r) ==
    /\ ask[r].pc = "return"
    /\ ask' = [ask EXCEPT ![r].pc = "done",
                          ![r].result = IF ask[r].in_except
                                        THEN ErrorResult(r)
                                        ELSE SuccessResult(r),
                          ![r].found = NothingFound]
    /\ reply' = NoReply
    /\ UNCHANGED <<conversations, log_file, uuids, news, today>>

\* ------------------------------------------------------ the other handlers

\* POST /session/new
create_session ==
    /\ news < MaxNew
    /\ news' = news + 1
    /\ uuids' = uuids + 1
    /\ conversations' = SetItem(Uuid(uuids + 1), <<>>)
    /\ reply' = [handler |-> "create_session",
                 body |-> [session_id |-> Uuid(uuids + 1),
                           message |-> "New conversation session created"]]
    /\ UNCHANGED <<log_file, ask, today>>

\* A read that answers an unknown identifier with an empty history (a mutant:
\* conversations.get(session_id, []) in place of the membership test).
HistoryResultLenient(session_id) ==
    LET history == IF Known(session_id) THEN conversations[session_id] ELSE <<>>
    IN  [session_id |-> session_id,
         message_count |-> Len(history),
         history |-> history]

\* GET /session/{session_id}
HistoryResult(session_id) ==
    IF ~Known(session_id)
    THEN [error |-> "Session not found"]
    ELSE [session_id |-> session_id,
          message_count |-> Len(conversations[session_id]),
          history |-> conversations[session_id]]

\* A read that stores an empty history under an identifier it does not find
\* (a mutant: the store as a defaultdict).
get_history_creating(session_id) ==
    /\ reply' = [handler |-> "get_history", session_id |-> session_id,
                 body |-> HistoryResult(session_id)]
    /\ conversations' = IF Known(session_id) THEN conversations
                        ELSE SetItem(session_id, <<>>)
    /\ UNCHANGED <<log_file, uuids, ask, news, today>>

get_history(session_id) ==
    /\ reply' = [handler |-> "get_history", session_id |-> session_id,
                 body |-> HistoryResult(session_id)]
    /\ UNCHANGED <<conversations, log_file, uuids, ask, news, today>>

\* not l.get('error')
NoError(l) == ~Truthy(l.error)

\* The statistics of a list of entries.  Every response time is Elapsed, and
\* so is their average; without entries the average is 0.
StatsOf(logs) ==
    LET total == Len(logs)
        successful == Cardinality({i \in 1..Len(logs) : NoError(logs[i])})
        modes == {logs[i].mode : i \in 1..Len(logs)}
    IN  [total_interactions |-> total,
         successful |-> successful,
         errors |-> total - successful,
         unique_sessions |->
            Cardinality({logs[i].session_id :
                            i \in {j \in 1..Len(logs) : Truthy(logs[j].session_id)}}),
         active_conversations |-> Cardinality(DOMAIN conversations),
         average_response_time_seconds |-> IF total > 0 THEN Elapsed ELSE 0,
         mode_usage |->
            [m \in modes |-> Cardinality({i \in 1..Len(logs) : logs[i].mode = m})],
         today |-> today]

\* GET /stats: without a file the short result; json.load is not guarded, so a
\* file that cannot be read as JSON ends the handler by an exception.
StatsResult ==
    CASE log_file.state = "missing" ->
            [total_interactions |-> 0, message |-> "No logs yet"]
      [] log_file.state = "json" -> StatsOf(log_file.logs)
      [] OTHER -> InternalServerError

get_stats ==
    /\ reply' = [handler |-> "get_stats", body |-> StatsResult]
    /\ UNCHANGED <<conversations, log_file, uuids, ask, news, today>>

\* The date changes while the process runs.
Midnight ==
    /\ today = StartDate
    /\ today' = NextDate
    /\ reply' = NoReply
    /\ UNCHANGED <<conversations, log_file, uuids, ask, news>>

\* --------------------------------------------------------- specifications

\* The steps of a started ask_portfolio call, but for the completion call.
AskStep(r) ==
    \/ AskCreate(r)
    \/ AskAppendUser(r)
    \/ AskAppendAssistant(r)
    \/ LogLoad(r)
    \/ LogWrite(r)
    \/ AskReturn(r)

\* The handler threads that serve /ask at the same time.
Pool == {"t1", "t2"}

\* Concurrent requests: the steps of the requests in flight interleave freely,
\* with POST /session/new and GET /session/{id} (of an identifier a client made
\* up, stored or not) between them.  The requests ask in mode "auto", each its
\* own question, and the completion service answers with a text or fails.
ConcurrentQuestion(r) == <<"Why?", "Hi", "Why?", "Hi">>[r]

ConcurrentBodies(r) ==
    {q \in Bodies : q.mode = "auto" /\ q.question = ConcurrentQuestion(r)}

ConcurrentResponses(r) == {TextResponse(AnswerText(r)), Raise("quota exceeded")}

Next ==
    \/ \E r \in Reqs : \E q \in ConcurrentBodies(r) :
            /\ Cardinality({o \in Reqs : InFlight(o)}) < Cardinality(Pool)
            /\ AskBegin(r, q, NothingFound)
    \/ \E r \in Reqs : \E response \in ConcurrentResponses(r) : AskGenerate(r, response)
    \/ \E r \in Reqs : AskStep(r)
    \/ create_session
    \/ \E session_id \in ClientIds : get_history(session_id)

Spec == Init /\ [][Next]_vars

\* Requests one after another: a request of any kind is taken only when no
\* /ask is in flight.  Every mode and every behaviour of the completion service
\* occurs, and the log file found at the start may be one that cannot be read.
Quiet == \A o \in Reqs : ~InFlight(o)

SeqNext ==
    \/ \E r \in Reqs : \E q \in Bodies : Quiet /\ AskBegin(r, q, Found(q.session_id))
    \/ \E r \in Reqs : \E response \in AllResponses(r) : AskGenerate(r, response)
    \/ \E r \in Reqs : AskStep(r)
    \/ Quiet /\ create_session
    \/ \E session_id \in ClientIds \cup DOMAIN conversations :
            Quiet /\ get_history(session_id)
    \/ Quiet /\ get_stats

SeqSpec == InitAnyLog /\ [][SeqNext]_vars

\* Conversations turn by turn: requests one after another, each with its own
\* question, in mode "auto" or in a mode the client names, on a new session, on
\* an identifier the client made up or on one a response gave it; the
\* completion service answers with a text or fails.
TurnBodies(r) ==
    {q \in Bodies : q.mode \in {"auto", "quick"} /\ q.question = ConcurrentQuestion(r)}

TurnNext ==
    \/ \E r \in Reqs : \E q \in TurnBodies(r) :
            Quiet /\ AskBegin(r, q, Found(q.session_id))
    \/ \E r \in Reqs : \E response \in ConcurrentResponses(r) : AskGenerate(r, response)
    \/ \E r \in Reqs : AskStep(r)
    \/ Quiet /\ create_session
    \/ \E session_id \in ClientIds \cup DOMAIN conversations :
            Quiet /\ get_history(session_id)

TurnSpec == Init /\ [][TurnNext]_vars

\* A conversation under way: session "abc" holds n earlier exchanges, each
\* logged, when the run starts.
PriorQuestion(k) == <<"q1", "q2", "q3", "q4", "q5", "q6">>[k]
PriorAnswer(k) == <<"p1", "p2", "p3", "p4", "p5", "p6">>[k]

PriorHistory(n) ==
    [i \in 1..(2 * n) |->
        IF i % 2 = 1
        THEN [role |-> "user", content |-> PriorQuestion((i + 1) \div 2)]
        ELSE [role |-> "assistant", content |-> PriorAnswer(i \div 2)]]

PriorLogs(n) ==
    [k \in 1..n |->
        [timestamp |-> StartDate, session_id |-> "abc", mode |-> "default",
         question |-> PriorQuestion(k), answer |-> PriorAnswer(k),
         error |-> None, response_time_seconds |-> Elapsed,
         model |-> MODEL_NAME]]

PromptInit ==
    \E n \in 0..MaxPrior :
        /\ conversations = [s \in (IF n = 0 THEN {} ELSE {"abc"}) |-> PriorHistory(n)]
        /\ log_file = (IF n = 0 THEN Missing ELSE JsonFile(PriorLogs(n)))
        /\ uuids = 0
        /\ ask = [r \in Reqs |-> NoLocals]
        /\ news = 0
        /\ reply = NoReply
        /\ today = StartDate

PromptSpec == PromptInit /\ [][TurnNext]_vars

\* A process that keeps running across a change of date: requests one after
\* another and GET /stats, with midnight passing at any moment.
DayNext ==
    \/ \E r \in Reqs : \E q \in TurnBodies(r) :
            Quiet /\ AskBegin(r, q, Found(q.session_id))
    \/ \E r \in Reqs : \E response \in ConcurrentResponses(r) : AskGenerate(r, response)
    \/ \E r \in Reqs : AskStep(r)
    \/ Quiet /\ get_stats
    \/ Midnight

DaySpec == Init /\ [][DayNext]_vars

\* The classifier at work: requests one after another that ask every question
\* of ClassifierQuestions in mode "auto", answered with a text.
ClassifierBodies ==
    [question : ClassifierQuestions, session_id : {None} \cup ClientIds,
     mode : {"auto"}]

ClassifierNext ==
    \/ \E r \in Reqs : \E q \in ClassifierBodies :
            Quiet /\ AskBegin(r, q, Found(q.session_id))
    \/ \E r \in Reqs : AskGenerate(r, TextResponse(AnswerText(r)))
    \/ \E r \in Reqs : AskStep(r)

ClassifierSpec == Init /\ [][ClassifierNext]_vars

\* ------------------------------------------------------------ properties

Succeeded(r) == Returned(r) /\ "answer" \in DOMAIN ask[r].result
Failed(r) == Returned(r) /\ "error" \in DOMAIN ask[r].result
Faulted(r) == Returned(r) /\ ask[r].result = InternalServerError

\* message occurs in the list history
Holds(history, message) == \E i \in 1..Len(history) : history[i] = message

\* Two requests ran concurrently: one arrived while the other was in flight.
Overlapped(r1, r2) ==
    r1 \in ask[r2].in_flight \/ r2 \in ask[r1].in_flight

\* C1: when two /ask requests that ran concurrently on one session id have both
\* returned the success shape, the stored history of that session holds the
\* user message and the assistant message of both.
C1_NoLostUpdate ==
    \A r1, r2 \in Reqs :
        (/\ r1 # r2
         /\ Succeeded(r1) /\ Succeeded(r2)
         /\ Overlapped(r1, r2)
         /\ ask[r1].session_id = ask[r2].session_id)
        => \A r \in {r1, r2} :
              /\ Holds(conversations[ask[r].session_id], UserMessage(r))
              /\ Holds(conversations[ask[r].session_id], AssistantMessage(r))

\* The step taken is a step of request r.
StepOf(r) == ask'[r] # ask[r]

\* What a step of a request on session s may do to the history stored under s:
\* store the empty history (session resolution) or append its own user message
\* or its own assistant message.
OwnChange(r, s) ==
    \/ conversations'[s] = <<>>
    \/ /\ Known(s)
       /\ \/ conversations'[s] = Append(conversations[s], UserMessage(r))
          \/ conversations'[s] = Append(conversations[s], AssistantMessage(r))

\* Every stored message of session s is the question or the answer of a request
\* made with session id s.
OwnMessages(s) ==
    \A i \in 1..Len(conversations[s]) :
        \E r \in Reqs :
            /\ Started(r)
            /\ ask[r].session_id = s
            /\ conversations[s][i] \in {UserMessage(r), AssistantMessage(r)}

\* C2: session isolation.  In every state each stored history holds only
\* messages of requests made with its own session id, and every step that
\* changes (or creates) the history stored under an identifier is either POST
\* /session/new storing an empty history under a fresh identifier, or a step of
\* an /ask made with that same identifier, which stores the empty history or
\* appends its own message; no step removes a session.
C2_SessionIsolation ==
    /\ [](\A s \in DOMAIN conversations : OwnMessages(s))
    /\ [][/\ DOMAIN conversations \subseteq DOMAIN conversations'
          /\ \A s \in DOMAIN conversations' :
                (s \notin DOMAIN conversations \/ conversations'[s] # conversations[s])
                => \/ /\ reply'.handler = "create_session"
                      /\ s \notin DOMAIN conversations
                      /\ conversations'[s] = <<>>
                   \/ \E r \in Reqs :
                        /\ StepOf(r)
                        /\ ask'[r].session_id = s
                        /\ OwnChange(r, s)]_vars

\* Two requests in flight at once on two different sessions have both stored
\* messages.
C2_Witness ==
    \E r1, r2 \in Reqs :
        /\ InFlight(r1) /\ InFlight(r2)
        /\ ask[r1].session_id # ask[r2].session_id
        /\ ask[r1].pc = "log_load" /\ ~ask[r1].in_except
        /\ ask[r2].pc = "append_assistant"
        /\ Len(conversations[ask[r1].session_id]) = 2
        /\ Len(conversations[ask[r2].session_id]) = 1

Role(i) == IF i % 2 = 1 THEN "user" ELSE "assistant"

\* C3: in every state every stored history alternates user, assistant, ...,
\* starting with a user message.
C3_Alternation ==
    \A s \in DOMAIN conversations :
        \A i \in 1..Len(conversations[s]) : conversations[s][i].role = Role(i)

\* The step taken is the return of the success shape by request r.
ReturnsSuccess(r) ==
    /\ ask[r].pc = "return"
    /\ ask'[r].pc = "done"
    /\ "answer" \in DOMAIN ask'[r].result

\* C4: when an /ask returns the success shape, the stored history of its
\* session has even length, twice the conversation_length returned.
C4_EvenAtReturn ==
    [][\A r \in Reqs :
          ReturnsSuccess(r)
          => /\ Len(conversations'[ask[r].session_id]) % 2 = 0
             /\ 2 * ask'[r].result.conversation_length
                    = Len(conversations'[ask[r].session_id])]_vars

\* The entry request r records when the completion call or the extraction
\* raised: no answer, and the message of the exception as the error.
FailureEntry(r) ==
    [timestamp |-> today,
     session_id |-> ask[r].session_id,
     mode |-> ask[r].mode,
     question |-> ask[r].q.question,
     answer |-> None,
     error |-> ask[r].raised,
     response_time_seconds |-> Elapsed,
     model |-> MODEL_NAME]

\* The step taken ends request r: it returns, or an exception leaves it.
Ends(r) == ask[r].pc # "done" /\ ask'[r].pc = "done"

\* C5: when a request whose completion call (or answer extraction) raised
\* ends, the message history of its session is the one it found, the log is the
\* log it found with exactly one entry appended, with answer None and the
\* exception's message as error, and the request returns the error shape: the
\* message and a response_time, no answer.  Stated for requests served one
\* after another.
C5_FailedExchange ==
    [][\A r \in Reqs :
          (Ends(r) /\ ask[r].raised # None)
          => /\ conversations'[ask[r].session_id] = ask[r].found.history
             /\ log_file' = JsonFile(Append(ask[r].found.logs, FailureEntry(r)))
             /\ ask'[r].result = [error |-> ask[r].raised,
                                  response_time |-> Elapsed]]_vars

\* C6: every /ask ends by returning the success shape or the error shape, never
\* by an unhandled exception.
C6_AlwaysStructured ==
    \A r \in Reqs : Returned(r) => (Succeeded(r) \/ Failed(r))

\* C7: a log file that cannot be read is an empty log to both sides of the
\* logger: log_interaction goes on to write a log holding only the new entry (it
\* does not raise out of the handler), and GET /stats returns the statistics of
\* an empty log.
C7_CorruptLogIsEmpty ==
    /\ \A r \in Reqs :
          (/\ ask[r].in_flight = {}
           /\ log_file.state \in {"corrupt", "unreadable"}
           /\ ask[r].pc \in {"log_write", "done"})
          => /\ ask[r].pc = "log_write"
             /\ ask[r].logs = <<LogEntry(r)>>
    /\ (reply.handler = "get_stats" /\ log_file.state \in {"corrupt", "unreadable"})
       => reply.body = StatsOf(<<>>)

\* The entries of the list logs that request r may have written.
EntriesOf(logs, r) ==
    {i \in 1..Len(logs) :
        /\ logs[i].question = ask[r].q.question
        /\ logs[i].session_id = ask[r].session_id
        /\ logs[i].answer = (IF ask[r].in_except THEN None ELSE ask[r].answer)}

\* C8: once the /ask requests made so far have all returned, the log holds
\* exactly one entry for each of them.
C8_OneEntryPerRequest ==
    (\A r \in Reqs : ~InFlight(r))
    => /\ Len(log_file.logs) = Cardinality({r \in Reqs : Returned(r)})
       /\ \A r \in Reqs : Returned(r) => EntriesOf(log_file.logs, r) # {}

\* C9: GET /stats after K /ask requests have completed, S with the success
\* shape and K - S with the error shape, reports K, S and K - S.
C9_StatsCounts ==
    (/\ reply.handler = "get_stats"
     /\ \A r \in Reqs : Returned(r) => (Succeeded(r) \/ Failed(r)))
    => LET K == Cardinality({r \in Reqs : Returned(r)})
           S == Cardinality({r \in Reqs : Succeeded(r)})
       IN  K > 0 =>
             /\ "successful" \in DOMAIN reply.body
             /\ reply.body.total_interactions = K
             /\ reply.body.successful = S
             /\ reply.body.errors = K - S

\* The mode /ask is to use for a request body.
ExpectedMode(q) ==
    IF q.mode \in {"auto", None} THEN detect_response_mode(q.question) ELSE q.mode

\* C10: the mode_used of a success response and the mode of the log entry are
\* the classifier's result when the requested mode is "auto" or None and the
\* requested mode otherwise, and so never "auto" and never None.
C10_ModeResolution ==
    \A r \in Reqs :
        /\ Succeeded(r)
           => /\ ask[r].result.mode_used = ExpectedMode(ask[r].q)
              /\ ask[r].result.mode_used \notin {"auto", None}
        /\ ask[r].pc = "log_write"
           => /\ LogEntry(r).mode = ExpectedMode(ask[r].q)
              /\ LogEntry(r).mode \notin {"auto", None}

\* Two characters are the same letter, whatever their case.
SameLetter(a, b) ==
    \/ a = b
    \/ \E k \in 1..Len(UpperCase) : {a, b} = {UpperCase[k], LowerCase[k]}

\* keyword occurs in the question, case-insensitively.
Occurs(question, keyword) ==
    LET text == Chars(question)
    IN  \E start \in 0..(Len(text) - Len(keyword)) :
            \A i \in 1..Len(keyword) : SameLetter(text[start + i], keyword[i])

\* The categories in their priority order, each with its keyword set.
Priority ==
    << [mode |-> "deep-dive", keywords |-> deep_dive_keywords],
       [mode |-> "quick", keywords |-> quick_keywords],
       [mode |-> "story", keywords |-> story_keywords] >>

\* The first category in priority order with a keyword occurring in the
\* question; default when there is none.
Category(question) ==
    LET hits == {c \in 1..Len(Priority) :
                    \E k \in 1..Len(Priority[c].keywords) :
                        Occurs(question, Priority[c].keywords[k])}
    IN  IF hits = {} THEN "default"
        ELSE Priority[CHOOSE c \in hits : \A d \in hits : c <= d].mode

\* The mode of request r has been resolved.
Resolved(r) == ask[r].pc \notin {"idle", "create", "generate"}

\* C11: the mode the classifier resolves "auto" to is the first category, in
\* the order deep-dive, quick, story, of which a keyword occurs
\* case-insensitively in the question, and default when no keyword occurs; it
\* is one of the four categories, never auto.
C11_Classifier ==
    \A r \in Reqs :
        (Resolved(r) /\ ask[r].q.mode = "auto")
        => /\ ask[r].mode = Category(ask[r].q.question)
           /\ ask[r].mode \in {"deep-dive", "quick", "story", "default"}

\* A question with a quick keyword in capitals was classified quick, and so
\* was one with a quick keyword and a story keyword.
C11_Witness ==
    \E r1, r2 \in Reqs :
        /\ Succeeded(r1) /\ Succeeded(r2)
        /\ ask[r1].q.question = "WHEN was it built?" /\ ask[r1].mode = "quick"
        /\ ask[r2].q.question = "Which story?" /\ ask[r2].result.mode_used = "quick"

\* C12: for requests served one after another, the conversation_length a
\* request returns with the success shape is the number of requests so far,
\* itself included, that returned the success shape on its session: 1 for the
\* first, 2 for the second, ...; requests that returned the error shape do
\* not count, and the modes requested do not matter.
C12_CountsSuccesses ==
    \A r \in Reqs :
        Succeeded(r)
        => ask[r].result.conversation_length =
              Cardinality({o \in 1..r : /\ Succeeded(o)
                                        /\ ask[o].session_id = ask[r].session_id})

\* The second success on a session returned 2, the two requests in different
\* modes.
C12_Witness ==
    \E r1, r2 \in Reqs :
        /\ r1 < r2
        /\ Succeeded(r1) /\ Succeeded(r2)
        /\ ask[r1].session_id = ask[r2].session_id
        /\ ask[r1].result.mode_used # ask[r2].result.mode_used
        /\ ask[r1].result.conversation_length = 1
        /\ ask[r2].result.conversation_length = 2

\* The responses from which no text can be extracted: a text attribute
\* holding None, candidates without a usable one, neither attribute.
NoText == {TextResponse(None), CandidatesResponse(None), BareResponse}

\* C13: a request whose completion call returned a response without
\* extractable text stores the fallback message as the assistant message,
\* logs it as the answer and returns the success shape with it as the answer.
C13_FallbackAnswer ==
    \A r \in Reqs :
        ask[r].response \in NoText
        => LET history == conversations[ask[r].session_id]
           IN  /\ ask[r].pc = "log_load"
                  => /\ Len(history) > 0
                     /\ history[Len(history)] =
                            [role |-> "assistant", content |-> FALLBACK]
               /\ ask[r].pc = "log_write"
                  => ask[r].logs[Len(ask[r].logs)].answer = FALLBACK
               /\ Returned(r)
                  => /\ Succeeded(r)
                     /\ ask[r].result.answer = FALLBACK

\* The step taken is the arrival of request r.
Starts(r) == ask[r].pc = "idle" /\ ask'[r].pc # "idle"

\* The identifiers a client can read: those it made up and those a response
\* has given it.
Readable == ClientIds \cup (DOMAIN conversations \ Undisclosed)

\* The step taken is a GET /session/{id}.
Reads == reply'.handler = "get_history"

\* C14 as stated: GET /session/{id} changes nothing in the store, and a step
\* that is neither the start nor the completion of an /ask leaves what GET
\* /session/{id} returns for an identifier unchanged, so that two reads with
\* no /ask starting or completing between them return the same message_count
\* and history.
C14_ReadIdempotent ==
    [][/\ Reads => conversations' = conversations
       /\ (\A r \in Reqs : ~Starts(r) /\ ~Ends(r))
          => \A id \in Readable : HistoryResult(id)' = HistoryResult(id)]_vars

\* C14 amended: GET /session/{id} changes nothing in the store, and a step
\* that is not a step of an /ask leaves what GET /session/{id} returns for an
\* identifier unchanged, so that two reads with no /ask starting, completing
\* or in progress between them return the same message_count and history.
C14_ReadIdempotentQuiet ==
    [][/\ Reads => conversations' = conversations
       /\ (\A r \in Reqs : ~StepOf(r))
          => \A id \in Readable : HistoryResult(id)' = HistoryResult(id)]_vars

\* A read has returned the history of a session on which an /ask that has
\* stored its question is in progress.
C14_Witness ==
    /\ reply.handler = "get_history"
    /\ "history" \in DOMAIN reply.body
    /\ reply.body.message_count = 1
    /\ \E r \in Reqs : /\ ask[r].session_id = reply.session_id
                        /\ ask[r].pc = "append_assistant"

\* The identifiers created so far: those generated, by POST /session/new or
\* by an /ask that sent none, and those an /ask that sent them has stored.
Created ==
    {Uuid(n) : n \in 1..uuids}
    \cup {ask[r].session_id : r \in {o \in Reqs : Resolved(o) \/ ask[o].pc = "generate"}}

\* C15: GET /session/{id} returns the not-found result when the identifier
\* has never been created, and the message count and the full history stored
\* under it otherwise; a read that returns not-found leaves the identifier
\* unknown.
C15_NotFoundIffNeverCreated ==
    /\ [](reply.handler = "get_history"
          => IF reply.session_id \in Created
             THEN reply.body =
                    [session_id |-> reply.session_id,
                     message_count |-> Len(conversations[reply.session_id]),
                     history |-> conversations[reply.session_id]]
             ELSE reply.body = [error |-> "Session not found"])
    /\ [][(Reads /\ "error" \in DOMAIN reply'.body)
            => reply'.session_id \notin DOMAIN conversations']_vars

\* A read has returned the two messages of a session that an /ask created by
\* using its identifier, while another /ask has seen the identifier of its own
\* session to be unknown and has not stored it yet.
C15_Witness ==
    /\ reply.handler = "get_history"
    /\ "history" \in DOMAIN reply.body
    /\ reply.body.message_count = 2
    /\ \E r \in Reqs : Succeeded(r) /\ ask[r].q.session_id = reply.session_id
    /\ \E r \in Reqs : ask[r].pc = "create"

\* "User" for a user message and "Assistant" for an assistant message.
Label(role) == CASE role = "user" -> "User" [] role = "assistant" -> "Assistant"

\* C16: the prompt sent to the completion service for a request on a session
\* that held N exchanges when the request arrived shows min(6, 2N) messages of
\* the history: the most recent ones, in their order, each under the label of
\* its role, none of the current exchange; and it carries the current
\* question.  Stated for requests served one after another.
C16_PromptHistory ==
    reply.handler = "generate_content"
    => \A r \in Reqs :
          InFlight(r)
          => LET before == ask[r].found.history
                 N == Len(before) \div 2
                 shown == reply.contents.previous
                 skipped == Len(before) - Len(shown)
             IN  /\ Len(shown) = (IF 2 * N < 6 THEN 2 * N ELSE 6)
                 /\ \A i \in 1..Len(shown) :
                        shown[i] = [role |-> Label(before[skipped + i].role),
                                    content |-> before[skipped + i].content]
                 /\ reply.contents.question = ask[r].q.question

\* A prompt was built for a session that held four exchanges: it shows six
\* messages and leaves out the oldest two.
C16_Witness ==
    /\ reply.handler = "generate_content"
    /\ Len(reply.contents.previous) = 6
    /\ reply.contents.previous[1] = [role |-> "User", content |-> "q2"]
    /\ \E r \in Reqs : InFlight(r) /\ Len(ask[r].found.history) = 8

\* The log of a calendar date, as the program leaves it: the file LOG_FILE
\* names for its date; the file of another date is never written.
LogOf(date) == IF date = LOG_FILE.date THEN LoadLogs(log_file) ELSE <<>>

\* C17: every entry is in the log of the date on which it was recorded, so the
\* log file of a date holds only entries of that date, and GET /stats, when it
\* returns the statistics shape, reports the current date and the number of
\* entries of the log of that date.
C17_LogOfTheDay ==
    /\ \A i \in 1..Len(log_file.logs) :
            log_file.logs[i].timestamp = LOG_FILE.date
    /\ (reply.handler = "get_stats" /\ "today" \in DOMAIN reply.body)
       => /\ reply.body.today = today
          /\ reply.body.total_interactions = Len(LogOf(reply.body.today))

\* C18: when a request returns the error shape, the session store is the one
\* the request found when it arrived: the same identifiers, each with the same
\* history.  Stated for requests served one after another.
C18_FailureLeavesStore ==
    [][\A r \in Reqs :
          (Ends(r) /\ "error" \in DOMAIN ask'[r].result)
          => conversations' = ask[r].found.store]_vars

\* No interaction has been recorded: there is no log file, or the log holds
\* no entry.
NothingRecorded ==
    \/ log_file.state = "missing"
    \/ log_file.state = "json" /\ log_file.logs = <<>>

\* C19: GET /stats while no interaction has been recorded returns the full
\* statistics shape: total, successful, errors and unique sessions 0, an
\* empty mode histogram, the current date and an average response time of 0.
C19_EmptyStats ==
    (reply.handler = "get_stats" /\ NothingRecorded)
    => LET body == reply.body
       IN  /\ {"total_interactions", "successful", "errors", "unique_sessions",
               "mode_usage", "today", "average_response_time_seconds"}
                  \subseteq DOMAIN body
           /\ body.total_interactions = 0
           /\ body.successful = 0
           /\ body.errors = 0
           /\ body.unique_sessions = 0
           /\ DOMAIN body.mode_usage = {}
           /\ body.today = today
           /\ body.average_response_time_seconds = 0

\* The identifier request r is to work on: the one its body supplies, or the
\* one generated for it when the body supplies none.
Target(r) ==
    IF Truthy(ask'[r].q.session_id) THEN ask'[r].q.session_id ELSE ask'[r].session_id

\* The step taken is request r's step from position pc, on the success path.
StepAt(r, pc) == StepOf(r) /\ ask[r].pc = pc /\ ~ask[r].in_except

\* C20: an identifier generated for a request was not in the store; a request
\* appends its user message, then its assistant message, to the history
\* stored under its identifier and changes no other history; the entry it
\* writes to the log and the success shape it returns carry that identifier
\* and one same mode; and when the identifier was generated for it, the
\* history holds exactly its exchange when it returns.
C20_SessionTargeting ==
    [][\A r \in Reqs :
          /\ (Starts(r) /\ ~Truthy(ask'[r].q.session_id))
             => ask'[r].session_id \notin DOMAIN conversations
          /\ StepAt(r, "append_user")
             => /\ ask'[r].pc = "append_assistant"
                /\ conversations' =
                     [conversations EXCEPT ![Target(r)] = Append(@, UserMessage(r))]
          /\ StepAt(r, "append_assistant")
             => conversations' =
                  [conversations EXCEPT ![Target(r)] = Append(@, AssistantMessage(r))]
          /\ StepAt(r, "log_write")
             => LET entry == log_file'.logs[Len(log_file'.logs)]
                IN  /\ entry.session_id = Target(r)
                    /\ entry.mode = ask'[r].mode
                    /\ ask'[r].pc = "return"
          /\ ReturnsSuccess(r)
             => /\ ask'[r].result.session_id = Target(r)
                /\ ask'[r].result.mode_used = ask[r].mode
                /\ ~Truthy(ask[r].q.session_id)
                   => conversations'[Target(r)] =
                        <<UserMessage(r), AssistantMessage(r)>>]_vars

\* A request that sent no session id and a request that supplied one, on
\* different sessions, have both returned the success shape.
C20_Witness ==
    \E r1, r2 \in Reqs :
        /\ Succeeded(r1) /\ Succeeded(r2)
        /\ ~Truthy(ask[r1].q.session_id)
        /\ Truthy(ask[r2].q.session_id)
        /\ ask[r2].result.session_id = ask[r2].q.session_id
        /\ ask[r1].result.session_id # ask[r2].result.session_id
        /\ Overlapped(r1, r2)

=============================================================================
